---- MODULE Spec2Model ----
(***************************************************************************)
(* Streamer Analytics Dashboard (src/dashboard.py).                        *)
(*                                                                         *)
(* Four specifications over one set of variables:                          *)
(*   Spec         the session: render passes, the cached loader            *)
(*                (load_data_from_mongodb under st.cache_data(ttl=300)),   *)
(*                the refresh button, the clock and the remote store;      *)
(*   SpecFilter   apply_filters on a coerced DataFrame, with the           *)
(*                FilterSpec built by main's widgets or given by a caller; *)
(*   SpecPaginate the pagination block of main;                            *)
(*   SpecExport   the display table and the export buttons of main.        *)
(***************************************************************************)
EXTENDS Integers, Sequences, FiniteSets, TLC

VARIABLES
    \* ---- Spec: session, loader and cache
    clock,          \* seconds since the session started
    store,          \* the documents of the remote collection
    cache,          \* st.cache_data entries of load_data_from_mongodb: <<>> or <<entry>>
    view,           \* what line 170 bound: [df, db_name, collection_name]
    messages,       \* st.error / st.info / st.warning shown by the last pass
    lastCall,       \* the last call of line 170: when, whether it fetched, what it raised
    hist,           \* history: the last successful fetch and refreshes since
    \* ---- SpecFilter
    fpc, df, filters, origin, filtered,
    \* ---- SpecPaginate
    ppc, total_records, records_per_page, total_pages, page, display_rows,
    \* ---- SpecExport
    xpc, xdf, table, exported

sessionVars == <<clock, store, cache, view, messages, lastCall, hist>>
filterVars == <<fpc, df, filters, origin, filtered>>
pageVars == <<ppc, total_records, records_per_page, total_pages, page, display_rows>>
exportVars == <<xpc, xdf, table, exported>>
vars == <<sessionVars, filterVars, pageVars, exportVars>>

(***************************************************************************)
(* Bounds of the model.                                                    *)
(***************************************************************************)
MaxLen == 2
MaxClock == 600
MaxRecords == 210
BigLen == 26

(***************************************************************************)
(* Values of a cell. A string is a sequence of one-character strings, so   *)
(* that substring search and case folding are computed, not assumed.       *)
(***************************************************************************)
Str(s) == [t |-> "str", s |-> s, n |-> 0]
Num(n) == [t |-> "num", s |-> <<>>, n |-> n]
\* A float64 cell holding the whole number n.
Float(n) == [t |-> "float", s |-> <<>>, n |-> n]
\* A float64 cell holding n hundredths.
Dec(n) == [t |-> "dec", s |-> <<>>, n |-> n]
NaN == [t |-> "nan", s |-> <<>>, n |-> 0]
None == [t |-> "none", s |-> <<>>, n |-> 0]

Yes == Str(<<"Y", "e", "s">>)
No == Str(<<"N", "o">>)
All == Str(<<"A", "l", "l">>)

IsNA(v) == v.t \in {"nan", "none"}

IsNumber(v) == v.t \in {"num", "float"}

Min2(a, b) == IF a <= b THEN a ELSE b

SeqSet(s) == {s[i] : i \in 1..Len(s)}

RECURSIVE SeqsUpTo(_, _)
SeqsUpTo(S, n) ==
    IF n = 0 THEN {<<>>}
    ELSE LET shorter == SeqsUpTo(S, n - 1)
         IN shorter \cup {Append(q, x) : q \in {r \in shorter : Len(r) = n - 1}, x \in S}

(***************************************************************************)
(* Documents of the collection: ordered key/value pairs, as the driver     *)
(* returns them. Every document carries the store's _id.                   *)
(***************************************************************************)
Doc1 ==
    << <<"_id", Num(1)>>, <<"username", Str(<<"B", "o", "b">>)>>,
       <<"is_live", Yes>>, <<"current_viewers", Num(100)>>,
       <<"game_name", Str(<<"a", "b", "c">>)>>, <<"isVerified", No>>,
       <<"total_streaming_minutes", Num(50)>> >>
Doc2 ==
    << <<"_id", Num(2)>>, <<"username", Str(<<"K", "i", "m">>)>>,
       <<"twitter", Str(<<"x", "A", "B", "C">>)>>, <<"is_live", No>>,
       <<"isVerified", Yes>>, <<"current_viewers", Num(0)>>,
       <<"language", None>>, <<"total_streaming_minutes", Num(100)>> >>
Doc3 ==
    << <<"_id", Num(3)>>, <<"current_viewers", Str(<<"n", "/", "a">>)>>,
       <<"views", Num(7)>> >>
Doc4 ==
    << <<"_id", Num(4)>>, <<"username", Str(<<"Z", "o", "e">>)>>,
       <<"is_live", Yes>>, <<"current_viewers", Num(50)>> >>

DocPool == {Doc1, Doc2, Doc3, Doc4}

DocKeys(doc) == [i \in 1..Len(doc) |-> doc[i][1]]

DocGet(doc, key) ==
    IF \E i \in 1..Len(doc) : doc[i][1] = key
    THEN doc[CHOOSE i \in 1..Len(doc) : doc[i][1] = key][2]
    ELSE NaN

(***************************************************************************)
(* DataFrames: ordered columns, and rows that keep their index label.      *)
(***************************************************************************)
EmptyFrame == [columns |-> <<>>, rows |-> <<>>]

\* Where a key is first seen: the first document holding it and its place there.
FirstDoc(docs, key) ==
    CHOOSE i \in 1..Len(docs) :
        /\ key \in SeqSet(DocKeys(docs[i]))
        /\ \A j \in 1..(i - 1) : key \notin SeqSet(DocKeys(docs[j]))

PlaceIn(doc, key) == CHOOSE i \in 1..Len(doc) : doc[i][1] = key

\* The keys of the documents, each once, in the order first seen.
ColumnsOf(docs) ==
    LET keys == UNION {SeqSet(DocKeys(docs[i])) : i \in 1..Len(docs)}
        seen == [k \in keys |->
                   LET i == FirstDoc(docs, k) IN <<i, PlaceIn(docs[i], k)>>]
        Before(a, b) ==
            \/ seen[a][1] < seen[b][1]
            \/ seen[a][1] = seen[b][1] /\ seen[a][2] < seen[b][2]
    IN [r \in 1..Cardinality(keys) |->
          CHOOSE k \in keys : Cardinality({x \in keys : Before(x, k)}) = r - 1]

\* pd.DataFrame(documents): the union of the keys in first-seen order, NaN
\* where a document lacks a key, a RangeIndex from 0.
DataFrameOf(docs) ==
    LET cols == ColumnsOf(docs)
    IN [columns |-> cols,
        rows |-> [i \in 1..Len(docs) |->
                    [idx |-> i - 1,
                     val |-> [c \in SeqSet(cols) |-> DocGet(docs[i], c)]]]]

HasColumn(d, c) == c \in SeqSet(d.columns)

\* df.drop(c, axis=1)
DropColumn(d, c) ==
    LET keep == SelectSeq(d.columns, LAMBDA x : x # c)
    IN [columns |-> keep,
        rows |-> [i \in 1..Len(d.rows) |->
                    [idx |-> d.rows[i].idx,
                     val |-> [k \in SeqSet(keep) |-> d.rows[i].val[k]]]]]

IsEmpty(d) == Len(d.rows) = 0 \/ Len(d.columns) = 0

(***************************************************************************)
(* Data Loader: load_data_from_mongodb and its st.cache_data(ttl) wrapper. *)
(***************************************************************************)
TTL == 300

\* st.secrets: whether the [mongodb] section exists, and its keys.
SecretKeys == {"uri", "database", "collection"}
SecretsStates ==
    {[section |-> TRUE, keys |-> SecretKeys],
     [section |-> FALSE, keys |-> {}],
     [section |-> TRUE, keys |-> {"database", "collection"}],
     [section |-> TRUE, keys |-> {"uri", "collection"}],
     [section |-> TRUE, keys |-> {"uri", "database"}]}

\* What the network and the server do to this call.
NetStates == {"up", "invalid_uri", "timeout", "refused", "cursor_error"}

\* The configuration and the network a call can meet.
Environments ==
    {[secrets |-> sec, net |-> "up"] : sec \in SecretsStates} \cup
    {[secrets |-> [section |-> TRUE, keys |-> SecretKeys], net |-> n] : n \in NetStates}

\* The classes `except Exception` catches among those the body can raise.
ExceptionSubclasses ==
    {"KeyError", "ConfigurationError", "ServerSelectionTimeoutError", "OperationFailure"}

\* Lines 47-49: the first lookup that raises KeyError, "" when none does.
MissingSecret(secrets) ==
    IF ~secrets.section THEN "mongodb"
    ELSE IF "uri" \notin secrets.keys THEN "uri"
    ELSE IF "database" \notin secrets.keys THEN "database"
    ELSE IF "collection" \notin secrets.keys THEN "collection"
    ELSE ""

\* Lines 51-57: the exception the client raises, "none" when the fetch works.
ClientException(net) ==
    CASE net = "invalid_uri" -> "ConfigurationError"
      [] net \in {"timeout", "refused"} -> "ServerSelectionTimeoutError"
      [] net = "cursor_error" -> "OperationFailure"
      [] OTHER -> "none"

Returned(d, db, coll, msgs, exc) ==
    [raised |-> "none", exc |-> exc, df |-> d, db_name |-> db,
     collection_name |-> coll, messages |-> msgs]

\* An exception no except clause catches leaves the function.
Propagated(exc) ==
    [raised |-> exc, exc |-> exc, df |-> EmptyFrame, db_name |-> "",
     collection_name |-> "", messages |-> {}]

\* Lines 45-66: the try body; exc is the exception it raises.
TryBody(secrets, net, docs) ==
    IF MissingSecret(secrets) # ""
    THEN Returned(EmptyFrame, "", "", {}, "KeyError")
    ELSE IF ClientException(net) # "none"
    THEN Returned(EmptyFrame, "", "", {}, ClientException(net))
    ELSE IF docs # <<>>
    THEN LET frame == DataFrameOf(docs)
         IN Returned(IF HasColumn(frame, "_id") THEN DropColumn(frame, "_id") ELSE frame,
                     "db", "coll", {}, "none")
    ELSE Returned(EmptyFrame, "db", "coll", {}, "none")

\* Lines 72-74: does `except Exception` catch exc?
CaughtByExceptOnlyTimeout(exc) == exc = "ServerSelectionTimeoutError"

CaughtByExcept(exc) == exc \in ExceptionSubclasses

\* Lines 43-74.
load_data_from_mongodb(secrets, net, docs) ==
    LET body == TryBody(secrets, net, docs)
    IN IF body.exc = "none" THEN body
       ELSE IF body.exc = "KeyError"
       THEN Returned(EmptyFrame, "", "", {"error_missing_configuration", "info_secrets"},
                     "KeyError")
       ELSE IF CaughtByExcept(body.exc)
       THEN Returned(EmptyFrame, "", "", {"error_connecting"}, body.exc)
       ELSE Propagated(body.exc)

\* st.cache_data(ttl=300): is the entry of this call still served at `now`?
\* Below the TTL it is; at exactly the TTL the cache library's version decides.
EntryServed(entry, now, atBoundary) ==
    \/ now - entry.stored_at < TTL
    \/ now - entry.stored_at = TTL /\ atBoundary

\* st.cache_data stores whatever the function returns; a call that raises
\* stores nothing.
CacheStore(c, result, now) ==
    IF result.raised = "none"
    THEN <<[value |-> result, stored_at |-> now]>>
    ELSE <<>>

\* st.cache_data.clear()
CacheClearKeeps(c) == c

CacheClear(c) == <<>>

\* Line 170 through the cache wrapper: the value, the cache after, and whether
\* the function body ran (a fetch from the store).
CachedLoad(c, now, atBoundary, secrets, net, docs) ==
    IF c # <<>> /\ EntryServed(c[1], now, atBoundary)
    THEN [result |-> c[1].value, cache |-> c, fetched |-> FALSE]
    ELSE LET r == load_data_from_mongodb(secrets, net, docs)
         IN [result |-> r, cache |-> CacheStore(c, r, now), fetched |-> TRUE]

(***************************************************************************)
(* Type coercion, main lines 177-183.                                      *)
(***************************************************************************)
numeric_columns ==
    <<"current_viewers", "total_streaming_minutes", "daily_streaming_minutes",
      "followers_count", "tweets_count", "total_xp", "views">>

Digits == <<"0", "1", "2", "3", "4", "5", "6", "7", "8", "9">>

IsDigit(c) == \E i \in 1..10 : Digits[i] = c

DigitValue(c) == (CHOOSE i \in 1..10 : Digits[i] = c) - 1

RECURSIVE ParseDigits(_)
ParseDigits(s) ==
    IF s = <<>> THEN 0
    ELSE 10 * ParseDigits(SubSeq(s, 1, Len(s) - 1)) + DigitValue(s[Len(s)])

\* pd.to_numeric(x, errors='coerce') on one cell: NaN when it does not parse.
ToNumeric(v) ==
    IF v.t = "num" THEN v
    ELSE IF v.t = "str" /\ v.s # <<>> /\ \A i \in 1..Len(v.s) : IsDigit(v.s[i])
    THEN Num(ParseDigits(v.s))
    ELSE NaN

\* pd.to_numeric(column, errors='coerce').fillna(0): a column where every
\* cell parses stays int64; one NaN makes the column float64 before the fill.
CoerceColumn(cells) ==
    LET parsed == [i \in 1..Len(cells) |-> ToNumeric(cells[i])]
    IN IF \A i \in 1..Len(cells) : parsed[i].t = "num" THEN parsed
       ELSE [i \in 1..Len(cells) |->
               IF parsed[i].t = "num" THEN Float(parsed[i].n) ELSE Float(0)]

\* Lines 178-183.
CoerceNumeric(d) ==
    [columns |-> d.columns,
     rows |-> [i \in 1..Len(d.rows) |->
                 [idx |-> d.rows[i].idx,
                  val |-> [c \in SeqSet(d.columns) |->
                             IF c \in SeqSet(numeric_columns)
                             THEN CoerceColumn([k \in 1..Len(d.rows) |-> d.rows[k].val[c]])[i]
                             ELSE d.rows[i].val[c]]]]]

\* The DataFrame main holds after lines 170-183 when the fetch of docs worked.
LoadedFrame(docs) ==
    CoerceNumeric(load_data_from_mongodb([section |-> TRUE, keys |-> SecretKeys],
                                         "up", docs).df)

(***************************************************************************)
(* Filter Engine: apply_filters (lines 92-127) and safe_slider (129-154).  *)
(***************************************************************************)
UpperCase ==
    <<"A", "B", "C", "D", "E", "F", "G", "H", "I", "J", "K", "L", "M",
      "N", "O", "P", "Q", "R", "S", "T", "U", "V", "W", "X", "Y", "Z">>
LowerCase ==
    <<"a", "b", "c", "d", "e", "f", "g", "h", "i", "j", "k", "l", "m",
      "n", "o", "p", "q", "r", "s", "t", "u", "v", "w", "x", "y", "z">>

Lower(c) ==
    IF \E i \in 1..26 : UpperCase[i] = c
    THEN LowerCase[CHOOSE i \in 1..26 : UpperCase[i] = c]
    ELSE c

Fold(s) == [i \in 1..Len(s) |-> Lower(s[i])]

RECURSIVE DigitsOf(_)
DigitsOf(n) ==
    IF n < 10 THEN <<Digits[n + 1]>>
    ELSE Append(DigitsOf(n \div 10), Digits[(n % 10) + 1])

\* Series.astype(str): str() of each cell, the missing ones included.
AsStr(v) ==
    CASE v.t = "str" -> v.s
      [] v.t = "nan" -> <<"n", "a", "n">>
      [] v.t = "none" -> <<"N", "o", "n", "e">>
      [] v.t = "float" -> DigitsOf(v.n) \o <<".", "0">>
      [] OTHER -> DigitsOf(v.n)

\* needle occurs in hay (a pattern of letters only is a literal pattern).
Contains(hay, needle) ==
    \E i \in 0..(Len(hay) - Len(needle)) : SubSeq(hay, i + 1, i + Len(needle)) = needle

\* Series.astype(str).str.contains(term, case=False, na=False) on one cell.
CellContains(v, term) == Contains(Fold(AsStr(v)), Fold(term))

\* Series == scalar on one cell: a missing cell equals nothing.
CellEquals(v, w) == ~IsNA(v) /\ ~IsNA(w) /\ v = w

search_columns == <<"username", "game_name", "language", "twitter">>

Frame(d) == [raised |-> "none", df |-> d]

Raise(exc, d) == [raised |-> exc, df |-> d]

\* df[mask] with a boolean Series: the rows whose mask is True, in order,
\* keeping their index labels.
SelectRows(d, mask) ==
    LET kept == SelectSeq([i \in 1..Len(d.rows) |-> i], LAMBDA i : mask[i])
    IN [columns |-> d.columns, rows |-> [k \in 1..Len(kept) |-> d.rows[kept[k]]]]

\* Lines 97-103. The mask starts as the scalar False and becomes a Series only
\* when a search column is present; df[False] looks up a column named False.
SearchStep(d, term) ==
    IF term = <<>> THEN Frame(d)
    ELSE LET present == SelectSeq(search_columns, LAMBDA c : HasColumn(d, c))
         IN IF present = <<>> THEN Raise("KeyError", d)
            ELSE Frame(SelectRows(d, [r \in 1..Len(d.rows) |->
                         \E i \in 1..Len(present) :
                            CellContains(d.rows[r].val[present[i]], term)]))

\* Lines 106-107 and 110-111: df[column] raises KeyError when it is absent.
EqualityStep(d, column, choice) ==
    IF choice = All THEN Frame(d)
    ELSE IF ~HasColumn(d, column) THEN Raise("KeyError", d)
    ELSE Frame(SelectRows(d, [r \in 1..Len(d.rows) |->
                                CellEquals(d.rows[r].val[column], choice)]))

\* Lines 114-118 and 121-125; range = <<>> is the key missing from filters.
RangeStep(d, column, range) ==
    IF range # <<>> /\ HasColumn(d, column)
    THEN Frame(SelectRows(d, [r \in 1..Len(d.rows) |->
                  /\ IsNumber(d.rows[r].val[column])
                  /\ d.rows[r].val[column].n >= range[1]
                  /\ d.rows[r].val[column].n <= range[2]]))
    ELSE Frame(d)

apply_filters(d, f) ==
    LET s1 == SearchStep(d, f.search_term)
        s2 == IF s1.raised # "none" THEN s1
              ELSE EqualityStep(s1.df, "is_live", f.status_filter)
        s3 == IF s2.raised # "none" THEN s2
              ELSE EqualityStep(s2.df, "isVerified", f.verification_filter)
        s4 == IF s3.raised # "none" THEN s3
              ELSE RangeStep(s3.df, "current_viewers", f.viewer_range)
        s5 == IF s4.raised # "none" THEN s4
              ELSE RangeStep(s4.df, "total_streaming_minutes", f.streaming_time_range)
    IN s5

Column(d, c) == [i \in 1..Len(d.rows) |-> d.rows[i].val[c]]

ColumnMin(col) ==
    CHOOSE m \in {col[i].n : i \in 1..Len(col)} : \A i \in 1..Len(col) : m <= col[i].n

ColumnMax(col) ==
    CHOOSE m \in {col[i].n : i \in 1..Len(col)} : \A i \in 1..Len(col) : m >= col[i].n

\* The values the user can drag a slider end to.
SliderStops == {0, 50, 100}

\* safe_slider: the values it can return, <<>> standing for None.
safe_slider(column_data) ==
    IF \A i \in 1..Len(column_data) : IsNA(column_data[i]) THEN {<<>>}
    ELSE LET min_val == ColumnMin(column_data)
             max_val == ColumnMax(column_data)
         IN IF min_val = max_val THEN {<<min_val, max_val>>}
            ELSE IF min_val >= max_val THEN {<<>>}
            ELSE {r \in ({min_val, max_val} \cup SliderStops) \X
                            ({min_val, max_val} \cup SliderStops) :
                     min_val <= r[1] /\ r[1] <= r[2] /\ r[2] <= max_val}

\* The text the user can type in the search box.
SearchTerms == {<<>>, <<"a", "b", "c">>, <<"a", "n">>, <<"O", "N">>}

\* ["All"] + list(df[column].unique()) when the column exists, else ["All"].
SelectOptions(d, column) ==
    {All} \cup (IF HasColumn(d, column) THEN SeqSet(Column(d, column)) ELSE {})

\* The slider of main lines 216-224: the key is set only when safe_slider
\* returned a range.
SliderChoices(d, column) ==
    IF HasColumn(d, column) THEN safe_slider(Column(d, column)) ELSE {<<>>}

\* Lines 202-224: the FilterSpecs main can build for d.
MainFilterSpecs(d) ==
    [search_term : SearchTerms,
     status_filter : SelectOptions(d, "is_live"),
     verification_filter : SelectOptions(d, "isVerified"),
     viewer_range : SliderChoices(d, "current_viewers"),
     streaming_time_range : SliderChoices(d, "total_streaming_minutes")]

\* The FilterSpecs a caller of apply_filters can pass.
CallerFilterSpecs ==
    [search_term : SearchTerms,
     status_filter : {All, Yes, No},
     verification_filter : {All, Yes, No},
     viewer_range : {<<>>, <<0, 100>>, <<50, 50>>, <<100, 50>>},
     streaming_time_range : {<<>>, <<50, 100>>, <<100, 50>>}]

NoFilters ==
    [search_term |-> <<>>, status_filter |-> All, verification_filter |-> All,
     viewer_range |-> <<>>, streaming_time_range |-> <<>>]


(***************************************************************************)
(* The session: render passes of main (lines 156-175), the refresh button, *)
(* the clock and the writers of the remote collection.                     *)
(***************************************************************************)
StoreContents == {<<>>, <<Doc1>>, <<Doc4, Doc1>>}

TickSteps == {299, 300}

NoCall ==
    [seq |-> 0, at |-> 0, refresh |-> FALSE, fetched |-> FALSE, exc |-> "none",
     raised |-> "none"]

NoHistory == [okAt |-> -1, okDf |-> EmptyFrame, refreshed |-> FALSE]

SessionIdle ==
    /\ clock = 0
    /\ store = <<>>
    /\ cache = <<>>
    /\ view = [df |-> EmptyFrame, db_name |-> "", collection_name |-> ""]
    /\ messages = {}
    /\ lastCall = NoCall
    /\ hist = NoHistory

FilterIdle ==
    /\ fpc = "off"
    /\ df = EmptyFrame
    /\ filters = NoFilters
    /\ origin = "none"
    /\ filtered = Frame(EmptyFrame)

PageIdle ==
    /\ ppc = "off"
    /\ total_records = 0
    /\ records_per_page = 0
    /\ total_pages = 0
    /\ page = 0
    /\ display_rows = <<>>

ExportIdle ==
    /\ xpc = "off"
    /\ xdf = EmptyFrame
    /\ table = [header |-> <<>>, rows |-> <<>>, warning |-> FALSE]
    /\ exported = [format |-> "none", sheet |-> "", header |-> <<>>, rows |-> <<>>]

\* One pass of main up to line 175. With `refresh`, the button of line 164 was
\* clicked: the cache is cleared and st.rerun() starts the pass over, the
\* button then reading False.
RenderPass(refresh, atBoundary, secrets, net) ==
    \E got \in {CachedLoad(IF refresh THEN CacheClear(cache) ELSE cache,
                           clock, atBoundary, secrets, net, store)} :
    LET r == got.result
    IN /\ cache' = got.cache
       /\ lastCall' = [seq |-> 1 - lastCall.seq, at |-> clock, refresh |-> refresh,
                       fetched |-> got.fetched, exc |-> r.exc, raised |-> r.raised]
       /\ IF r.raised # "none"
          THEN /\ view' = view
               /\ messages' = {"uncaught_exception"}
          ELSE /\ view' = [df |-> r.df, db_name |-> r.db_name,
                           collection_name |-> r.collection_name]
               /\ messages' = r.messages \cup
                     (IF IsEmpty(r.df) THEN {"warning_no_data", "info_check_secrets"}
                      ELSE {})
       /\ hist' = IF got.fetched /\ r.raised = "none" /\ r.exc = "none"
                  THEN [okAt |-> clock, okDf |-> r.df, refreshed |-> FALSE]
                  ELSE IF refresh THEN [hist EXCEPT !.refreshed = TRUE]
                  ELSE hist
       /\ UNCHANGED <<clock, store>>

\* The cache library's choice is open only for an entry aged exactly the TTL.
BoundaryChoices(c, now) ==
    IF c # <<>> /\ now - c[1].stored_at = TTL THEN BOOLEAN ELSE {FALSE}

\* A user interaction other than the refresh button: main runs again.
Render ==
    /\ \E atBoundary \in BoundaryChoices(cache, clock), env \in Environments :
          RenderPass(FALSE, atBoundary, env.secrets, env.net)
    /\ UNCHANGED <<filterVars, pageVars, exportVars>>

\* The "Refresh Data" button, lines 164-166.
RefreshData ==
    /\ \E env \in Environments :
          RenderPass(TRUE, FALSE, env.secrets, env.net)
    /\ UNCHANGED <<filterVars, pageVars, exportVars>>

\* Time passes between passes.
Tick ==
    /\ \E d \in TickSteps :
          /\ clock + d <= MaxClock
          /\ clock' = clock + d
    /\ UNCHANGED <<store, cache, view, messages, lastCall, hist>>
    /\ UNCHANGED <<filterVars, pageVars, exportVars>>

\* Another program writes the collection.
StoreWrite ==
    /\ \E docs \in StoreContents :
          /\ docs # store
          /\ store' = docs
    /\ UNCHANGED <<clock, cache, view, messages, lastCall, hist>>
    /\ UNCHANGED <<filterVars, pageVars, exportVars>>

Init ==
    /\ SessionIdle
    /\ FilterIdle
    /\ PageIdle
    /\ ExportIdle

Next ==
    \/ Render
    \/ RefreshData
    \/ Tick
    \/ StoreWrite

Spec == Init /\ [][Next]_vars

(***************************************************************************)
(* SpecFilter: the Filter Engine on a loaded, coerced DataFrame.           *)
(***************************************************************************)
FilterInit ==
    /\ SessionIdle
    /\ PageIdle
    /\ ExportIdle
    /\ fpc = "start"
    /\ df \in {LoadedFrame(docs) : docs \in SeqsUpTo(DocPool, MaxLen)}
    /\ filters = NoFilters
    /\ origin = "none"
    /\ filtered = Frame(EmptyFrame)

\* main lines 172-227: an empty DataFrame returns at line 175; otherwise the
\* widgets build the FilterSpec and apply_filters runs.
FilterFromMain ==
    /\ fpc = "start"
    /\ ~IsEmpty(df)
    /\ \E f \in MainFilterSpecs(df) :
          /\ filters' = f
          /\ filtered' = apply_filters(df, f)
    /\ origin' = "main"
    /\ fpc' = "done"
    /\ UNCHANGED df
    /\ UNCHANGED <<sessionVars, pageVars, exportVars>>

\* apply_filters called with a FilterSpec of the caller's own.
FilterFromCaller ==
    /\ fpc = "start"
    /\ \E f \in CallerFilterSpecs :
          /\ filters' = f
          /\ filtered' = apply_filters(df, f)
    /\ origin' = "caller"
    /\ fpc' = "done"
    /\ UNCHANGED df
    /\ UNCHANGED <<sessionVars, pageVars, exportVars>>

FilterNext ==
    \/ FilterFromMain
    \/ FilterFromCaller

SpecFilter == FilterInit /\ [][FilterNext]_vars

(***************************************************************************)
(* SpecPaginate: the pagination block of main, lines 265-283, on the       *)
(* sorted filtered DataFrame, whose rows are numbered by position.         *)
(***************************************************************************)
\* Line 265: the "Records per page" selectbox.
RecordsPerPageOptions == {25, 50, 100, 200}

\* The sorted filtered rows, by position.
FilteredRows(n) == [i \in 1..n |-> i]

\* Line 274 with the quotient rounded up once too often.
TotalPagesFloorPlusOne(n, per_page) == IF n > 0 THEN n \div per_page + 1 ELSE 1

\* Line 274.
TotalPages(n, per_page) == IF n > 0 THEN (n - 1) \div per_page + 1 ELSE 1

\* rows.iloc[start:stop], positions counted from 0, stop excluded.
ILoc(rows, start, stop) == SubSeq(rows, start + 1, Min2(stop, Len(rows)))

\* Lines 276-283 with the slice one row short.
DisplayRowsShort(rows, per_page, pages, page_input) ==
    IF pages > 1
    THEN LET start_idx == (page_input - 1) * per_page
             end_idx == Min2(start_idx + per_page, Len(rows)) - 1
         IN ILoc(rows, start_idx, end_idx)
    ELSE rows

\* Lines 276-283: page_input is the value of the "Page" number input.
DisplayRows(rows, per_page, pages, page_input) ==
    IF pages > 1
    THEN LET start_idx == (page_input - 1) * per_page
             end_idx == Min2(start_idx + per_page, Len(rows))
         IN ILoc(rows, start_idx, end_idx)
    ELSE rows

PageInit ==
    /\ SessionIdle
    /\ FilterIdle
    /\ ExportIdle
    /\ ppc = "start"
    /\ total_records \in 0..MaxRecords
    /\ records_per_page = 0
    /\ total_pages = 0
    /\ page = 0
    /\ display_rows = <<>>

\* One pass through lines 265-283: the user's page size and page number. The
\* number input exists only when there is more than one page.
Paginate ==
    /\ \E per_page \in RecordsPerPageOptions :
          LET pages == TotalPages(total_records, per_page)
          IN \E page_input \in 1..pages :
                /\ records_per_page' = per_page
                /\ total_pages' = pages
                /\ page' = page_input
                /\ display_rows' =
                      DisplayRows(FilteredRows(total_records), per_page, pages, page_input)
    /\ ppc' = "shown"
    /\ UNCHANGED total_records
    /\ UNCHANGED <<sessionVars, filterVars, exportVars>>

PageNext == Paginate

SpecPaginate == PageInit /\ [][PageNext]_vars

(***************************************************************************)
(* SpecExport: the table and the export buttons of main, lines 272-346, on *)
(* the sorted filtered DataFrame.                                          *)
(***************************************************************************)
\* A collection too large for one page of 25: distinct users and counts.
BigDoc(i) ==
    << <<"_id", Num(i)>>, <<"total_streaming_minutes", Num(60 + i)>>,
       <<"username", Str(<<"u">> \o DigitsOf(i))>>, <<"current_viewers", Num(i)>> >>

BigDocs == [i \in 1..BigLen |-> BigDoc(i)]

\* (minutes / 60).round(2), in hundredths: m * 5 / 3 is never half-way.
HoursOf(v) == Dec((10 * v.n + 3) \div 6)

\* formatted_df[name] = f(formatted_df[from]): a new column goes last, an
\* existing one is overwritten in place.
WithDerived(d, name, from) ==
    [columns |-> IF HasColumn(d, name) THEN d.columns ELSE Append(d.columns, name),
     rows |-> [i \in 1..Len(d.rows) |->
                 [idx |-> d.rows[i].idx,
                  val |-> [c \in SeqSet(d.columns) \cup {name} |->
                             IF c = name THEN HoursOf(d.rows[i].val[from])
                             ELSE d.rows[i].val[c]]]]]

\* Lines 288-295.
Formatted(d) ==
    LET f1 == IF HasColumn(d, "total_streaming_minutes")
              THEN WithDerived(d, "total_streaming_hours", "total_streaming_minutes")
              ELSE d
    IN IF HasColumn(f1, "daily_streaming_minutes")
       THEN WithDerived(f1, "daily_streaming_hours", "daily_streaming_minutes")
       ELSE f1

\* Lines 298-300.
priority_columns ==
    <<"username", "is_live", "current_viewers", "game_name", "language",
      "isVerified", "total_streaming_hours", "daily_streaming_hours",
      "followers_count", "twitter_verified">>

\* Lines 302-304.
FinalColumns(d) ==
    LET displayed_columns == SelectSeq(priority_columns, LAMBDA c : HasColumn(d, c))
        remaining_columns == SelectSeq(d.columns, LAMBDA c : c \notin SeqSet(displayed_columns))
    IN displayed_columns \o remaining_columns

\* d[columns]: the cells of each row in the order of `columns`.
Cells(d, columns) ==
    [i \in 1..Len(d.rows) |-> [k \in 1..Len(columns) |-> d.rows[i].val[columns[k]]]]

NoTable == [header |-> <<>>, rows |-> <<>>, warning |-> FALSE]

\* Lines 286-312: the table st.dataframe shows for display_df.
TableOf(display_df) ==
    IF ~IsEmpty(display_df)
    THEN LET formatted_df == Formatted(display_df)
         IN [header |-> FinalColumns(formatted_df),
             rows |-> Cells(formatted_df, FinalColumns(formatted_df)),
             warning |-> FALSE]
    ELSE [header |-> <<>>, rows |-> <<>>, warning |-> TRUE]

\* One cell of DataFrame.to_csv: a missing value is the empty field.
CsvCell(v) == IF IsNA(v) THEN <<>> ELSE AsStr(v)

\* DataFrame.to_csv(index=False): the header line, then one line per row.
ToCsv(d) ==
    [format |-> "csv", sheet |-> "", header |-> d.columns,
     rows |-> [i \in 1..Len(d.rows) |->
                 [k \in 1..Len(d.columns) |-> CsvCell(Cells(d, d.columns)[i][k])]]]

\* One cell of DataFrame.to_excel: a missing value is an empty cell.
ExcelCell(v) == IF IsNA(v) THEN None ELSE v

\* DataFrame.to_excel(writer, index=False, sheet_name='Streamers').
ToExcel(d) ==
    [format |-> "xlsx", sheet |-> "Streamers", header |-> d.columns,
     rows |-> [i \in 1..Len(d.rows) |->
                 [k \in 1..Len(d.columns) |-> ExcelCell(Cells(d, d.columns)[i][k])]]]

NoExport == [format |-> "none", sheet |-> "", header |-> <<>>, rows |-> <<>>]

\* The export buttons serializing the page shown instead of filtered_df.
ExportSourcePage(filtered_df, display_df) == display_df

\* Lines 321, 333, 344: what the export buttons serialize.
ExportSource(filtered_df, display_df) == filtered_df

\* Lines 272-283 on a DataFrame.
DisplayFrame(d, per_page, page_input) ==
    [columns |-> d.columns,
     rows |-> DisplayRows(d.rows, per_page, TotalPages(Len(d.rows), per_page), page_input)]

\* Lines 315-346: the document the clicked button produces.
Export(button, filtered_df, display_df) ==
    IF IsEmpty(filtered_df) \/ button = "none" THEN NoExport
    ELSE IF button = "excel" THEN ToExcel(ExportSource(filtered_df, display_df))
    ELSE ToCsv(ExportSource(filtered_df, display_df))

ExportInit ==
    /\ SessionIdle
    /\ FilterIdle
    /\ PageIdle
    /\ xpc = "start"
    /\ xdf \in {LoadedFrame(docs) : docs \in SeqsUpTo(DocPool, MaxLen) \cup {BigDocs}}
    /\ table = NoTable
    /\ exported = NoExport

\* One pass through lines 265-346 with the given button clicked: the page
\* size and page number chosen, the table shown, the document exported.
ExportPass(button) ==
    /\ \E per_page \in RecordsPerPageOptions :
          \E page_input \in 1..TotalPages(Len(xdf.rows), per_page) :
             LET display_df == DisplayFrame(xdf, per_page, page_input)
             IN /\ total_records' = Len(xdf.rows)
                /\ records_per_page' = per_page
                /\ total_pages' = TotalPages(Len(xdf.rows), per_page)
                /\ page' = page_input
                /\ display_rows' = [i \in 1..Len(display_df.rows) |-> display_df.rows[i].idx]
                /\ table' = TableOf(display_df)
                /\ exported' = Export(button, xdf, display_df)
    /\ xpc' = button
    /\ ppc' = "shown"
    /\ UNCHANGED xdf
    /\ UNCHANGED <<sessionVars, filterVars>>

\* A pass with no export button clicked.
ShowTable == ExportPass("none")

\* "Export as CSV", lines 320-327.
ExportCsv == ExportPass("csv")

\* "Export as Excel", lines 330-340.
ExportExcel == ExportPass("excel")

\* "Copy to Clipboard", lines 343-346.
CopyToClipboard == ExportPass("clipboard")

ExportNext ==
    \/ ShowTable
    \/ ExportCsv
    \/ ExportExcel
    \/ CopyToClipboard

SpecExport == ExportInit /\ [][ExportNext]_vars

(***************************************************************************)
(* Claims about the loader and its cache (under Spec).                     *)
(***************************************************************************)
\* A step that is a pass of main.
PassStep == lastCall'.seq # lastCall.seq

LoadFailed(call) == call.fetched /\ call.exc # "none"

\* The DataFrame a fetch of `docs` must give: one row per document in the
\* store's order, every key but _id a column, NaN where a key is missing.
IsFrameOf(d, docs) ==
    /\ Len(d.rows) = Len(docs)
    /\ SeqSet(d.columns) =
          UNION {SeqSet(DocKeys(docs[i])) : i \in 1..Len(docs)} \ {"_id"}
    /\ \A i \in 1..Len(docs) :
          /\ d.rows[i].idx = i - 1
          /\ \A c \in SeqSet(d.columns) : d.rows[i].val[c] = DocGet(docs[i], c)

\* C3: load_data_from_mongodb never raises to its caller; when the
\* configuration or the connection fails it returns an empty Dataset with an
\* empty database name and an empty collection name, and an error message
\* is shown.
C3_LoaderNeverRaises ==
    /\ lastCall.raised = "none"
    /\ LoadFailed(lastCall) =>
          /\ IsEmpty(view.df)
          /\ view.db_name = ""
          /\ view.collection_name = ""
          /\ messages \cap {"error_missing_configuration", "error_connecting"} # {}

C3_Witness ==
    /\ LoadFailed(lastCall)
    /\ lastCall.exc = "OperationFailure"
    /\ "error_connecting" \in messages

\* C8: a pass that starts less than TTL seconds after a successful load, with
\* no refresh in between, uses the cached Dataset and does not fetch; a
\* refresh makes the load that follows it fetch from the store; and the
\* Dataset a successful fetch returns is the store's, replacing the one
\* shown before as a whole.
C8_CacheWithinTtlAndRefresh ==
    [][PassStep =>
          /\ (/\ hist.okAt >= 0
              /\ ~hist.refreshed
              /\ ~lastCall'.refresh
              /\ clock - hist.okAt < TTL)
                => (~lastCall'.fetched /\ view'.df = hist.okDf)
          /\ lastCall'.refresh => lastCall'.fetched
          /\ (lastCall'.fetched /\ lastCall'.exc = "none" /\ lastCall'.raised = "none")
                => (IF store = <<>> THEN IsEmpty(view'.df)
                    ELSE IsFrameOf(view'.df, store))]_vars

\* A pass less than TTL seconds after the fetch served the cached Dataset
\* although the store had changed meanwhile.
C8_Witness ==
    /\ ~lastCall.fetched
    /\ ~lastCall.refresh
    /\ hist.okAt >= 0
    /\ ~hist.refreshed
    /\ lastCall.at > hist.okAt
    /\ lastCall.at - hist.okAt < TTL
    /\ view.df = hist.okDf
    /\ store # <<>>
    /\ ~IsFrameOf(view.df, store)

\* A refresh inside the TTL fetched the store's new contents.
C8_WitnessRefresh ==
    /\ lastCall.refresh
    /\ lastCall.fetched
    /\ lastCall.exc = "none"
    /\ lastCall.at = 299
    /\ hist.okAt = 299
    /\ Len(view.df.rows) = 2

\* C9: a failed load is not cached, so the pass after it calls the store
\* again, whenever it starts.
C9_FailureNotCached ==
    [][(PassStep /\ LoadFailed(lastCall) /\ lastCall.raised = "none")
          => lastCall'.fetched]_vars

(***************************************************************************)
(* Claims about the Filter Engine (under SpecFilter).                      *)
(***************************************************************************)
\* r is d with some rows left out: the same columns, every row a row of d
\* under its own index label, the labels strictly increasing as in d.
IsSubsequence(r, d) ==
    /\ r.columns = d.columns
    /\ \A i \in 1..Len(r.rows) :
          \E j \in 1..Len(d.rows) : d.rows[j].idx = r.rows[i].idx /\ d.rows[j] = r.rows[i]
    /\ \A i \in 1..Len(r.rows), j \in 1..Len(r.rows) :
          i < j => r.rows[i].idx < r.rows[j].idx

\* C1: for every Dataset and every FilterSpec, apply_filters returns a
\* subsequence of the Dataset: no record added, duplicated or altered, the
\* order kept.
C1_FilterReturnsSubsequence ==
    fpc = "done" => (filtered.raised = "none" /\ IsSubsequence(filtered.df, df))

\* What apply_filters does return is a subsequence of its input.
ReturnedIsSubsequence ==
    (fpc = "done" /\ filtered.raised = "none") => IsSubsequence(filtered.df, df)

AbsentSearch(d, f) ==
    f.search_term # <<>> /\ \A i \in 1..Len(search_columns) : ~HasColumn(d, search_columns[i])

AbsentStatus(d, f) == f.status_filter # All /\ ~HasColumn(d, "is_live")

AbsentVerification(d, f) == f.verification_filter # All /\ ~HasColumn(d, "isVerified")

\* f without the predicates whose column d lacks.
SkipAbsent(d, f) ==
    [f EXCEPT !.search_term = IF AbsentSearch(d, f) THEN <<>> ELSE @,
              !.status_filter = IF AbsentStatus(d, f) THEN All ELSE @,
              !.verification_filter = IF AbsentVerification(d, f) THEN All ELSE @]

\* C4: a predicate whose column is absent from the Dataset is skipped: it
\* raises no error and excludes no record.
C4_AbsentColumnSkipped ==
    (fpc = "done" /\ SkipAbsent(df, filters) # filters)
        => (filtered.raised = "none" /\ filtered = apply_filters(df, SkipAbsent(df, filters)))

\* C4 for the FilterSpecs main builds: violated by a search term typed over
\* a Dataset with none of the four search columns.
AbsentColumnSkippedInMain ==
    (fpc = "done" /\ origin = "main" /\ SkipAbsent(df, filters) # filters)
        => (filtered.raised = "none" /\ filtered = apply_filters(df, SkipAbsent(df, filters)))

InRange(d, column, range) ==
    [columns |-> d.columns,
     rows |-> SelectSeq(d.rows, LAMBDA r :
                 r.val[column].n >= range[1] /\ r.val[column].n <= range[2])]

RangeAsClaimed(d, f, g, column, range) ==
    (range # <<>> /\ HasColumn(d, column) /\ d.rows # <<>>)
        => IF range[1] > range[2]
           THEN apply_filters(d, f) = apply_filters(d, g)
           ELSE apply_filters(d, f).df = InRange(apply_filters(d, g).df, column, range)

\* C5: a range with min > max on a non-empty column is no constraint (the
\* output equals the output without that range); a range with min <= max
\* keeps exactly the records whose value lies in [min, max].
C5_InvalidRangeIsNoConstraint ==
    (fpc = "done" /\ filtered.raised = "none")
        => /\ RangeAsClaimed(df, filters, [filters EXCEPT !.viewer_range = <<>>],
                             "current_viewers", filters.viewer_range)
           /\ RangeAsClaimed(df, filters, [filters EXCEPT !.streaming_time_range = <<>>],
                             "total_streaming_minutes", filters.streaming_time_range)

\* The valid half of C5 alone.
ValidRangeKeepsInterval ==
    (fpc = "done" /\ filtered.raised = "none")
        => /\ (filters.viewer_range # <<>> /\ filters.viewer_range[1] > filters.viewer_range[2])
                 \/ RangeAsClaimed(df, filters, [filters EXCEPT !.viewer_range = <<>>],
                                   "current_viewers", filters.viewer_range)
           /\ (/\ filters.streaming_time_range # <<>>
               /\ filters.streaming_time_range[1] > filters.streaming_time_range[2])
                 \/ RangeAsClaimed(df, filters,
                                   [filters EXCEPT !.streaming_time_range = <<>>],
                                   "total_streaming_minutes", filters.streaming_time_range)

\* The term occurs, letter case aside, in a value that is present.
ValueMatches(d, r, term) ==
    \E i \in 1..Len(search_columns) :
        /\ HasColumn(d, search_columns[i])
        /\ ~IsNA(r.val[search_columns[i]])
        /\ Contains(Fold(AsStr(r.val[search_columns[i]])), Fold(term))

\* C6: with a search term, a record is kept if and only if the term is a
\* case-insensitive substring of one of its username, game_name, language,
\* twitter values; an absent value never matches.
C6_SearchMatchesPresentValuesOnly ==
    (fpc = "done" /\ filters.search_term # <<>> /\ filtered.raised = "none")
        => filtered.df =
              LET rest == apply_filters(df, [filters EXCEPT !.search_term = <<>>]).df
              IN [columns |-> rest.columns,
                  rows |-> SelectSeq(rest.rows,
                              LAMBDA r : ValueMatches(df, r, filters.search_term))]

\* C6 for the records that have no absent search value.
SearchOnPresentValues ==
    (fpc = "done" /\ filters.search_term # <<>> /\ filtered.raised = "none")
        => \A i \in 1..Len(df.rows) :
              (\A k \in 1..Len(search_columns) :
                  HasColumn(df, search_columns[k]) => ~IsNA(df.rows[i].val[search_columns[k]]))
              => ((\E j \in 1..Len(filtered.df.rows) : filtered.df.rows[j] = df.rows[i])
                     => ValueMatches(df, df.rows[i], filters.search_term))

(***************************************************************************)
(* Claims about pagination (under SpecPaginate).                           *)
(***************************************************************************)
RECURSIVE ConcatPages(_, _, _, _)
ConcatPages(rows, per_page, pages, upto) ==
    IF upto = 0 THEN <<>>
    ELSE ConcatPages(rows, per_page, pages, upto - 1) \o
         DisplayRows(rows, per_page, pages, upto)

\* C2: the page shown is the slice [(page-1)*P, min(page*P, N)) and the pages
\* 1 .. total_pages, concatenated in order, are the sorted filtered Dataset:
\* every record on exactly one page, no gap, no overlap.
C2_PagesCoverExactlyOnce ==
    ppc = "shown" =>
        /\ display_rows =
              SubSeq(FilteredRows(total_records), (page - 1) * records_per_page + 1,
                     Min2(page * records_per_page, total_records))
        /\ ConcatPages(FilteredRows(total_records), records_per_page, total_pages,
                       total_pages) = FilteredRows(total_records)

\* The last of three pages holds the one record left over.
C2_Witness ==
    /\ ppc = "shown"
    /\ total_records = 101
    /\ records_per_page = 50
    /\ page = 3
    /\ display_rows = <<101>>

\* The least k with k * per_page >= n.
CeilDiv(n, per_page) == CHOOSE k \in 0..n : k * per_page >= n /\ (k - 1) * per_page < n

\* C7: total_pages is ceil(N / P) when N > 0 and 1 when N = 0; so it is 1 for
\* N = 0, 3 for N = 101 and P = 50, and N / P when P divides N.
C7_TotalPagesIsCeiling ==
    ppc = "shown" =>
        /\ total_pages = (IF total_records = 0 THEN 1
                          ELSE CeilDiv(total_records, records_per_page))
        /\ total_records = 0 => total_pages = 1
        /\ (total_records = 101 /\ records_per_page = 50) => total_pages = 3
        /\ (total_records > 0 /\ total_records % records_per_page = 0)
              => total_pages * records_per_page = total_records

\* P divides N: 200 records in pages of 50.
C7_Witness ==
    /\ ppc = "shown"
    /\ total_records = 200
    /\ records_per_page = 50
    /\ total_pages = 4

(***************************************************************************)
(* Claims about the export (under SpecExport).                             *)
(***************************************************************************)
\* C10: the exported CSV, and the spreadsheet alike, has as header the
\* column names in the priority order (identifying and status columns, then
\* the derived hour columns, then the rest), followed by one row per record
\* of the whole filtered Dataset.
C10_ExportHeaderInPriorityOrder ==
    exported.format # "none" =>
        /\ exported.header = FinalColumns(Formatted(xdf))
        /\ Len(exported.rows) = Len(xdf.rows)

\* C10 as the code has it: the header is the filtered Dataset's own columns
\* in the Dataset's order, with no derived hour column, followed by one row
\* per record of the whole filtered Dataset, in its order, CSV and
\* spreadsheet alike; the priority order and the hour columns are those of
\* the table on screen, which shows one page.
C10_ExportHeaderIsDatasetColumns ==
    exported.format # "none" =>
        /\ exported.header = xdf.columns
        /\ "total_streaming_hours" \notin SeqSet(exported.header)
        /\ "daily_streaming_hours" \notin SeqSet(exported.header)
        /\ Len(exported.rows) = Len(xdf.rows)
        /\ \A i \in 1..Len(xdf.rows) :
              /\ Len(exported.rows[i]) = Len(xdf.columns)
              /\ \A k \in 1..Len(xdf.columns) :
                    LET v == xdf.rows[i].val[xdf.columns[k]]
                    IN IF exported.format = "xlsx"
                       THEN exported.rows[i][k] = (IF IsNA(v) THEN None ELSE v)
                       ELSE exported.rows[i][k] = (IF IsNA(v) THEN <<>> ELSE AsStr(v))
        /\ table.header = FinalColumns(Formatted(xdf))
        /\ Len(table.rows) = Len(display_rows)

\* A CSV of a Dataset of more than one page: the table shows the second page
\* under the priority order with the hour column, the CSV has every record
\* under the Dataset's own columns.
C10_Witness ==
    /\ exported.format = "csv"
    /\ xpc = "csv"
    /\ Len(xdf.rows) > records_per_page
    /\ page = 2
    /\ Len(exported.rows) = Len(xdf.rows)
    /\ Len(table.rows) < Len(exported.rows)
    /\ table.header # exported.header
    /\ table.header[1] = "username"
    /\ exported.header[1] = "total_streaming_minutes"
    /\ "total_streaming_hours" \in SeqSet(table.header)

====
